---------------------------- MODULE Spec2Model ----------------------------
(***************************************************************************)
(* mdbookshelf: the synchronization-and-aggregation pipeline.              *)
(*                                                                         *)
(* run (src/src/lib.rs) walks the configured books; for each it calls the  *)
(* synchronizer (clone_or_fetch_repo) and the generation adapter           *)
(* (generate_epub), pushes a manifest entry, and finally renders the       *)
(* manifest (templates or manifest.json).  The repository holds two        *)
(* implementations of the synchronizer and of the adapter: the free        *)
(* functions of lib.rs, which lib.rs's run calls, and the trait GitOp of   *)
(* git.rs with Book::generate_epub of book.rs, which tests.rs drives       *)
(* through run.  `variant` says which pair a run is bound to.              *)
(*                                                                         *)
(* Strings that the code slices, joins or quotes (urls, paths, titles,     *)
(* override values) are sequences of one-character strings.                *)
(***************************************************************************)
EXTENDS Integers, Sequences, FiniteSets, TLC

\* ------------------------------------------------------------------ bounds

\* Longest configured list of books.
MaxBooks == 2

\* Commits on the remotes' master: commit 1 is what an earlier run checked
\* out, commit MaxCommit is the tip now.
MaxCommit == 2

\* ------------------------------------------------------- absent values

\* Option::None.
None == <<"None">>

\* A path of the working directory that holds no repository.
NoRepo == [origin |-> <<"absent">>, head |-> 0, fetched |-> 0]

\* A repository with no remote named "origin".
NoOrigin == <<"?">>

\* ----------------------------------------------------------- url parsing

Letters == {"a", "b", "e", "g", "h", "m", "o", "p", "r", "t", "u", "w"}

\* The special schemes of the url crate that the inputs use.
SpecialSchemes == {<<"h", "t", "t", "p">>}

\* s with its first n characters dropped.
Drop(s, n) == SubSeq(s, n + 1, Len(s))

\* Index of the ':' that ends a scheme (a letter, then letters), 0 if s has
\* no scheme.
SchemeEnd(s) ==
    LET colons == {k \in 2..Len(s) : s[k] = ":" /\ \A j \in 1..(k - 1) : s[j] \in Letters}
    IN IF colons = {} THEN 0 ELSE CHOOSE k \in colons : \A j \in colons : k <= j

\* Number of leading '/' of s.
LeadingSlashes(s) ==
    LET stops == {k \in 1..Len(s) : s[k] # "/"}
    IN IF stops = {} THEN Len(s) ELSE (CHOOSE k \in stops : \A j \in stops : k <= j) - 1

\* Index of the first '/' of s, Len(s) + 1 if it has none.
FirstSlash(s) ==
    LET at == {k \in 1..Len(s) : s[k] = "/"}
    IN IF at = {} THEN Len(s) + 1 ELSE CHOOSE k \in at : \A j \in at : k <= j

\* Url::parse(s) without a base: [ok, path].  A special scheme skips every
\* leading slash, needs a host and has path "/" when none is written; any
\* other scheme has an authority after "//", else the rest is its path.
UrlParse(s) ==
    LET e == SchemeEnd(s)
        scheme == SubSeq(s, 1, e - 1)
        rest == Drop(s, e)
    IN IF e = 0 THEN [ok |-> FALSE, path |-> <<>>]
       ELSE IF scheme \in SpecialSchemes
       THEN LET after == Drop(rest, LeadingSlashes(rest))
                h == FirstSlash(after)
                p == Drop(after, h - 1)
            IN IF h = 1 THEN [ok |-> FALSE, path |-> <<>>]
               ELSE [ok |-> TRUE, path |-> IF p = <<>> THEN <<"/">> ELSE p]
       ELSE IF LeadingSlashes(rest) >= 2
       THEN LET after == Drop(rest, 2)
            IN [ok |-> TRUE, path |-> Drop(after, FirstSlash(after) - 1)]
       ELSE [ok |-> TRUE, path |-> rest]

\* Path::join: an absolute right side replaces the left side; otherwise a
\* separator is added unless the left side ends with one.
PathJoin(base, p) ==
    IF p # <<>> /\ p[1] = "/" THEN p
    ELSE IF base # <<>> /\ base[Len(base)] # "/" THEN base \o <<"/">> \o p
    ELSE base \o p

\* ------------------------------------------------------------ resolution

\* &parsed_url.path()[1..]: slicing from byte 1 panics on an empty path.
\* [kind |-> "ok", path] | [kind |-> "err"] | [kind |-> "panic"].

\* lib.rs: Url::parse(url)? returns the parse error.
LibRepoPath(url) ==
    LET u == UrlParse(url)
    IN IF ~u.ok THEN [kind |-> "err", path |-> <<>>]
       ELSE IF u.path = <<>> THEN [kind |-> "panic", path |-> <<>>]
       ELSE [kind |-> "ok", path |-> Tail(u.path)]

\* git.rs: an input that is no url is taken as a local path.
GitRepoPath(url) ==
    LET u == UrlParse(url)
    IN IF ~u.ok THEN [kind |-> "ok", path |-> url]
       ELSE IF u.path = <<>> THEN [kind |-> "panic", path |-> <<>>]
       ELSE [kind |-> "ok", path |-> Tail(u.path)]

RepoPath(v, url) == IF v = "lib" THEN LibRepoPath(url) ELSE GitRepoPath(url)

\* let mut dest = working_dir.join(repo_path)
DestOf(working_dir, repo_path) == PathJoin(working_dir, repo_path)


\* ------------------------------------------------------------ the inputs

HttpRepo == <<"h", "t", "t", "p", ":", "/", "/", "g", "/", "o">>
HttpDoubleSlash == <<"h", "t", "t", "p", ":", "/", "/", "g", "/", "/", "e">>
EmptyPathUrl == <<"m", ":">>
OpaquePathUrl == <<"m", ":", "u">>
LocalRepo == <<"t", "/", "m">>
AbsoluteLocal == <<"/", "a">>

\* The origin of a repository that was cloned from somewhere else.
OtherUrl == <<"h", "t", "t", "p", ":", "/", "/", "g", "/", "r">>

RepoInputs ==
    {HttpRepo, HttpDoubleSlash, EmptyPathUrl, OpaquePathUrl, LocalRepo, AbsoluteLocal}

\* mdbook's environment key of book.title.
BookTitleKey == "MDBOOK_BOOK__TITLE"

\* BookRepoConfig {title, folder, repo_url, url, env_var}.  env_var is the
\* toml table in its iteration order (by key); a value is an integer or a
\* string.
BookRepoConfigs ==
    { [title |-> None, folder |-> None, repo_url |-> HttpRepo, url |-> "site1",
       env_var |-> <<>>],
      [title |-> <<"T">>, folder |-> <<"b">>, repo_url |-> HttpDoubleSlash, url |-> "site2",
       env_var |-> <<[name |-> "A", value |-> [kind |-> "int", v |-> 1]]>>],
      [title |-> <<"T">>, folder |-> None, repo_url |-> LocalRepo, url |-> "site3",
       env_var |-> <<[name |-> "A", value |-> [kind |-> "int", v |-> 1]],
                     [name |-> BookTitleKey, value |-> [kind |-> "str", v |-> <<"Z">>]]>>],
      [title |-> None, folder |-> None, repo_url |-> AbsoluteLocal, url |-> "site4",
       env_var |-> <<[name |-> BookTitleKey, value |-> [kind |-> "str", v |-> <<"Z">>]]>>],
      [title |-> None, folder |-> None, repo_url |-> EmptyPathUrl, url |-> "site5",
       env_var |-> <<>>],
      [title |-> None, folder |-> None, repo_url |-> OpaquePathUrl, url |-> "site6",
       env_var |-> <<>>] }

\* Every list of at most n books.
BookLists(n) == UNION {[1..k -> BookRepoConfigs] : k \in 0..n}

\* Config, as a bookshelf.toml that sets destination-dir and working-dir
\* gives it.
Configs ==
    [book_repo_configs : BookLists(MaxBooks),
     destination_dir : {<<"d">>},
     templates_dir : {None, <<"t">>},
     title : {<<>>, <<"s">>},
     working_dir : {<<"w">>}]

\* #[derive(Default)] Config: no books, no directories, an empty title.
DefaultConfig ==
    [book_repo_configs |-> <<>>, destination_dir |-> None, templates_dir |-> None,
     title |-> <<>>, working_dir |-> None]

\* The configuration file at the path cfg resolves: a toml table holding a
\* config, or a file that cannot be read, or one that is not a toml table.
BrokenFiles ==
    {[kind |-> k, config |-> DefaultConfig] : k \in {"unreadable", "unparsable"}}

\* What main is started with: the configuration file and the -d and -t
\* arguments.  A complete file is run without arguments; a file that lacks
\* destination-dir, and a broken file, with and without them.
Inputs ==
    LET none == [destination_dir |-> None, templates_dir |-> None]
        args == [destination_dir : {None, <<"d">>}, templates_dir : {None, <<"t">>}]
        lacking == {[c EXCEPT !.destination_dir = None] : c \in Configs}
    IN {[file |-> [kind |-> "table", config |-> c], args |-> none] : c \in Configs}
       \cup {[file |-> [kind |-> "table", config |-> c], args |-> none] : c \in lacking}
       \cup {[file |-> [kind |-> "table", config |-> c], args |-> a] :
                c \in {l \in lacking : l.book_repo_configs = <<>>}, a \in args}
       \cup {[file |-> f, args |-> a] : f \in BrokenFiles, a \in args}

\* Config::from_disk: File::open(..)?.read_to_string(..)? and toml::from_str.
FromDisk(file) ==
    IF file.kind = "table" THEN [ok |-> TRUE, config |-> file.config]
    ELSE [ok |-> FALSE, config |-> DefaultConfig]

\* base.join("repos"), the working directory when none is configured.
Repos == <<"r">>

\* cfg without its check of the destination directory.
CfgOf_Unchecked(in) ==
    LET loaded == IF FromDisk(in.file).ok THEN FromDisk(in.file).config ELSE DefaultConfig
    IN [ok |-> TRUE, config |-> loaded]

\* cfg: Config::from_disk(confpath).unwrap_or_default(), the -d argument over
\* the file's destination-dir, the bail when there is none, the default
\* working directory, the -t argument over the file's templates-dir.
CfgOf(in) ==
    LET loaded == IF FromDisk(in.file).ok THEN FromDisk(in.file).config ELSE DefaultConfig
        d == IF in.args.destination_dir # None THEN in.args.destination_dir
             ELSE loaded.destination_dir
        w == IF loaded.working_dir # None THEN loaded.working_dir ELSE Repos
        tdir == IF in.args.templates_dir # None THEN in.args.templates_dir
                ELSE loaded.templates_dir
    IN IF d = None THEN [ok |-> FALSE, config |-> loaded]
       ELSE [ok |-> TRUE,
             config |-> [loaded EXCEPT !.destination_dir = d, !.working_dir = w,
                                       !.templates_dir = tdir]]

\* The non-directory files under the templates directory, in walk order.
TemplateFiles == <<"SUMMARY.md", "books.md">>

\* Every directory a sync can resolve to.
DestPaths ==
    {DestOf(<<"w">>, RepoPath(v, u).path) : v \in {"lib", "mod"}, u \in RepoInputs}

\* The working directory an earlier run left: empty, or one book's directory
\* already holds a repository (whose origin is the book's url, another url,
\* or missing; whose HEAD is the first commit or unborn).
InitialDisks(v, c) ==
    LET empty == [p \in DestPaths |-> NoRepo]
        books == c.book_repo_configs
        held(u) == {[origin |-> u, head |-> 1, fetched |-> 1],
                    [origin |-> OtherUrl, head |-> 1, fetched |-> 1],
                    [origin |-> NoOrigin, head |-> 1, fetched |-> 1],
                    [origin |-> u, head |-> 0, fetched |-> 0]}
        ok == {k \in 1..Len(books) : RepoPath(v, books[k].repo_url).kind = "ok"}
        at(k) == DestOf(c.working_dir, RepoPath(v, books[k].repo_url).path)
    IN {empty} \cup
       UNION {{[empty EXCEPT ![at(k)] = r] : r \in held(books[k].repo_url)} : k \in ok}

\* ----------------------------------------------------------------- state

VARIABLES
    variant,     \* "lib": lib.rs's free functions; "mod": git.rs and book.rs
    input,       \* the configuration file and the arguments main is given
    config,      \* the Config cfg built (the default one before cfg)
    env,         \* the process environment: variable -> value (or None)
    disk,        \* working directory: path -> repository (or NoRepo)
    pc,          \* run's position
    i,           \* index of the book being processed
    manifest,    \* the Manifest under construction
    dest,        \* clone_or_fetch_repo's dest
    sync,        \* what clone_or_fetch_repo returned for book i
    md,          \* generate_epub's loaded book and the artifact it found
    t,           \* index of the template being rendered
    calls,       \* this run's calls to the collaborators, in order
    history,     \* every sync that returned, in order
    result       \* "running" | "ok" | "err" | "panic"

vars == <<variant, input, config, env, disk, pc, i, manifest, dest,
          sync, md, t, calls, history, result>>

\* The commit master points to on every remote.
RemoteTip == MaxCommit

NoSync == [path |-> <<>>, commit_sha |-> 0, last_modified |-> 0]
NoMd == [title |-> None, rendered |-> FALSE, epub_size |-> 0]

\* One call to a collaborator, made for book i: what was called, on which
\* url and path, with which further argument, whether it succeeded and what
\* it returned.
Call(op, url, path, arg, ok, ret) ==
    [book |-> i, op |-> op, url |-> url, path |-> path, arg |-> arg, ok |-> ok, ret |-> ret]

\* The logical clock Utc::now() reads: it advances with every call.
Now == Len(calls) + 1

Books == config.book_repo_configs
Book == Books[i]


\* ------------------------------------------------------------- overrides

\* A decimal digit string of a small natural number.
RECURSIVE IntToString(_)
IntToString(n) ==
    LET digit == <<"0", "1", "2", "3", "4", "5", "6", "7", "8", "9">>
    IN IF n < 10 THEN <<digit[n + 1]>>
       ELSE IntToString(n \div 10) \o <<digit[(n % 10) + 1]>>

\* toml::Value's Display: an integer in decimal, a string in double quotes.
ValueToString(value) ==
    IF value.kind = "int" THEN IntToString(value.v)
    ELSE <<"\"">> \o value.v \o <<"\"">>

\* The title pair put first, before the table's pairs.
EnvVars_TitleFirst(book) ==
    (IF book.title # None
     THEN <<[name |-> BookTitleKey, value |-> book.title]>> ELSE <<>>)
    \o [k \in 1..Len(book.env_var) |->
        [name |-> book.env_var[k].name, value |-> ValueToString(book.env_var[k].value)]]

\* The override sequence of a book: the table's pairs with their values
\* stringified, then the title under mdbook's book-title key.
EnvVars(book) ==
    [k \in 1..Len(book.env_var) |->
        [name |-> book.env_var[k].name, value |-> ValueToString(book.env_var[k].value)]]
    \o (IF book.title # None
        THEN <<[name |-> BookTitleKey, value |-> book.title]>> ELSE <<>>)

\* What run hands to the adapter: lib.rs's generate_epub takes no overrides.
OverridesOf(v, book) == IF v = "mod" THEN EnvVars(book) ELSE <<>>

\* temp_env::with_vars sets the variables in order: the last pair of a name
\* is the value the engine reads (None when the name is not set).
Lookup(env_var, name) ==
    LET at == {k \in 1..Len(env_var) : env_var[k].name = name}
    IN IF at = {} THEN None
       ELSE env_var[CHOOSE k \in at : \A j \in at : j <= k].value

\* The variables of the process environment the overrides can name, and the
\* environment the process starts in: A is set to another value than any
\* override gives it, or not set.
EnvNames == {"A", BookTitleKey}
ProcessEnvs ==
    {[n \in EnvNames |-> None],
     [n \in EnvNames |-> IF n = "A" THEN <<"0">> ELSE None]}

\* std::env::set_var for each pair, in order.
RECURSIVE SetVars(_, _)
SetVars(e, kvs) ==
    IF kvs = <<>> THEN e
    ELSE SetVars([e EXCEPT ![Head(kvs).name] = Head(kvs).value], Tail(kvs))

\* The overrides left in the environment when the closure has returned.
WithVars_KeepSet(e, kvs) ==
    [inside |-> SetVars(e, kvs), after |-> SetVars(e, kvs)]

\* temp_env::with_vars(kvs, closure): the old value of every named variable
\* is saved, the pairs are set in order, the closure runs in the environment
\* `inside`, and the saved values are put back whatever the closure returned.
WithVars(e, kvs) ==
    LET old == [k \in 1..Len(kvs) |-> [name |-> kvs[k].name, value |-> e[kvs[k].name]]]
        inside == SetVars(e, kvs)
    IN [inside |-> inside, after |-> SetVars(inside, old)]

\* mdbook reads an override as JSON when it parses as JSON, else as the raw
\* string: a double-quoted value loses its quotes.
JsonOrRaw(s) ==
    IF Len(s) >= 2 /\ s[1] = "\"" /\ s[Len(s)] = "\""
    THEN SubSeq(s, 2, Len(s) - 1) ELSE s

\* md.config.book.title after the load under env_var, for a book whose
\* book.toml declares `declared`.
EngineTitle(env_var, declared) ==
    IF Lookup(env_var, BookTitleKey) = None THEN declared
    ELSE JsonOrRaw(Lookup(env_var, BookTitleKey))

\* The precedence turned round: the engine's title first.
ResolveTitle_EngineFirst(config_title, book_title) ==
    IF book_title # None THEN book_title
    ELSE IF config_title # None THEN config_title
    ELSE <<>>

\* repo_config.title.to_owned().or(book_title).unwrap_or_default()
ResolveTitle(config_title, book_title) ==
    IF config_title # None THEN config_title
    ELSE IF book_title # None THEN book_title
    ELSE <<>>


\* ------------------------------------------------------------------- run

Init ==
    /\ variant \in {"lib", "mod"}
    /\ input \in Inputs
    /\ config = DefaultConfig
    /\ env \in ProcessEnvs
    /\ disk \in InitialDisks(variant, CfgOf(input).config)
    /\ pc = "cfg"
    /\ i = 0
    /\ manifest = [entries |-> <<>>, timestamp |-> 0, title |-> <<>>]
    /\ dest = <<>>
    /\ sync = NoSync
    /\ md = NoMd
    /\ t = 0
    /\ calls = <<>>
    /\ history = <<>>
    /\ result = "running"

\* main: cfg(cmd().get_matches()).unwrap().  Without a destination directory
\* cfg bails and the process exits before run is called.
Cfg ==
    /\ pc = "cfg"
    /\ IF CfgOf(input).ok
       THEN /\ config' = CfgOf(input).config
            /\ pc' = "start"
            /\ UNCHANGED result
       ELSE /\ pc' = "exit"
            /\ result' = "err"
            /\ UNCHANGED config
    /\ UNCHANGED <<variant, input, env, disk, i, manifest, dest, sync, md, t,
                   calls, history>>

\* Manifest::new()
ManifestNew == [entries |-> <<>>, timestamp |-> Now, title |-> <<>>]

\* The loop left for the output stage whatever books remain.
LoopPc_LeaveEarly(k) == "output"

\* The head of the for loop over config.book_repo_configs: the k-th book, or
\* the output stage after the last.
LoopPc(k) == IF k <= Len(Books) THEN "resolve" ELSE "output"

\* Abort with the failure only noted: the loop is left for the output stage.
Abort_FallThrough(kind) ==
    /\ pc' = "output"
    /\ result' = kind

\* run returns Err(..) through `?` (kind "err") or the thread panics (kind
\* "panic"): either way nothing after this point of run executes.
Abort(kind) ==
    /\ pc' = "done"
    /\ result' = kind

\* Begin with an empty list of books turned into an error.
Begin_NothingToBuild ==
    /\ pc = "start"
    /\ manifest' = [ManifestNew EXCEPT !.title = config.title]
    /\ i' = 1
    /\ IF Len(Books) = 0 THEN Abort("err") ELSE pc' = LoopPc(1) /\ UNCHANGED result
    /\ UNCHANGED <<variant, input, config, env, disk, dest, sync, md, t, calls, history>>

\* Manifest::new() kept as it is: the shelf title is not copied.
ManifestOf_NoTitle(title) == ManifestNew

\* let mut manifest = Manifest::new(); manifest.title = config.title.clone()
ManifestOf(title) == [ManifestNew EXCEPT !.title = title]

Begin ==
    /\ pc = "start"
    /\ manifest' = ManifestOf(config.title)
    /\ i' = 1
    /\ pc' = LoopPc(1)
    /\ UNCHANGED <<variant, input, config, env, disk, dest, sync, md, t, calls,
                   history, result>>

\* clone_or_fetch_repo, up to dest: parse the url, join it to working_dir.
Resolve ==
    /\ pc = "resolve"
    /\ LET r == RepoPath(variant, Book.repo_url)
       IN IF r.kind = "ok"
          THEN /\ dest' = DestOf(config.working_dir, r.path)
               /\ pc' = "open"
               /\ UNCHANGED result
          ELSE /\ Abort(r.kind)
               /\ UNCHANGED dest
    /\ UNCHANGED <<variant, input, config, env, disk, i, manifest, sync, md, t,
                   calls, history>>

\* Open whose outcome is not looked at: the clone always follows.
Open_AlwaysClone ==
    /\ pc = "open"
    /\ calls' = Append(calls, Call("open", Book.repo_url, dest, <<>>, disk[dest] # NoRepo, 0))
    /\ pc' = "clone"
    /\ UNCHANGED <<variant, input, config, env, disk, i, manifest, dest, sync,
                   md, t, history, result>>

\* if let Ok(repo) = Self::open(dest.clone())
Open ==
    /\ pc = "open"
    /\ calls' = Append(calls, Call("open", Book.repo_url, dest, <<>>, disk[dest] # NoRepo, 0))
    /\ pc' = IF disk[dest] # NoRepo THEN "remote" ELSE "clone"
    /\ UNCHANGED <<variant, input, config, env, disk, i, manifest, dest, sync,
                   md, t, history, result>>

\* Remote without the assert_eq!: any origin is fetched from.
Remote_NoAssert ==
    /\ pc = "remote"
    /\ calls' = Append(calls, Call("find_remote", Book.repo_url, dest, <<>>,
                                   disk[dest].origin # NoOrigin, disk[dest].origin))
    /\ IF disk[dest].origin = NoOrigin THEN Abort("err")
       ELSE pc' = "fetch" /\ UNCHANGED result
    /\ UNCHANGED <<variant, input, config, env, disk, i, manifest, dest, sync,
                   md, t, history>>

\* repo.find_remote("origin") and the assert_eq! on its url.
Remote ==
    /\ pc = "remote"
    /\ calls' = Append(calls, Call("find_remote", Book.repo_url, dest, <<>>,
                                   disk[dest].origin # NoOrigin, disk[dest].origin))
    /\ IF disk[dest].origin = NoOrigin THEN Abort("err")
       ELSE IF disk[dest].origin # Book.repo_url THEN Abort("panic")
       ELSE pc' = "fetch" /\ UNCHANGED result
    /\ UNCHANGED <<variant, input, config, env, disk, i, manifest, dest, sync,
                   md, t, history>>

\* remote.fetch(&["master"], None, None)?: the remote-tracking branch moves to
\* the remote's tip; HEAD and the work tree stay.
Fetch ==
    /\ pc = "fetch"
    /\ \E ok \in BOOLEAN :
        /\ calls' = Append(calls, Call("fetch", Book.repo_url, dest, disk[dest].origin, ok, 0))
        /\ IF ok
           THEN /\ disk' = [disk EXCEPT ![dest].fetched = RemoteTip]
                /\ pc' = "head"
                /\ UNCHANGED result
           ELSE /\ Abort("err")
                /\ UNCHANGED disk
    /\ UNCHANGED <<variant, input, config, env, i, manifest, dest, sync, md, t,
                   history>>

\* Self::clone(url, dest.clone())?
Clone ==
    /\ pc = "clone"
    /\ \E ok \in BOOLEAN :
        /\ calls' = Append(calls, Call("clone", Book.repo_url, dest, <<>>, ok, 0))
        /\ IF ok
           THEN /\ disk' = [disk EXCEPT ![dest] =
                       [origin |-> Book.repo_url, head |-> RemoteTip, fetched |-> RemoteTip]]
                /\ pc' = "head"
                /\ UNCHANGED result
           ELSE /\ Abort("err")
                /\ UNCHANGED disk
    /\ UNCHANGED <<variant, input, config, env, i, manifest, dest, sync, md, t,
                   history>>

\* repo.head()?.peel_to_commit()?, then Ok((dest, commit_sha, last_modified)).
HeadCommit ==
    /\ pc = "head"
    /\ IF disk[dest].head = 0
       THEN /\ Abort("err")
            /\ UNCHANGED <<sync, history>>
       ELSE /\ sync' = [path |-> dest, commit_sha |-> disk[dest].head,
                        last_modified |-> disk[dest].head]
            /\ history' = Append(history,
                    [book |-> i, url |-> Book.repo_url,
                     working_dir |-> config.working_dir, path |-> dest,
                     how |-> calls[Len(calls)].op,
                     commit_sha |-> disk[dest].head,
                     last_modified |-> disk[dest].head])
            /\ pc' = "load"
            /\ UNCHANGED result
    /\ UNCHANGED <<variant, input, config, env, disk, i, manifest, dest, md, t,
                   calls>>

\* if let Some(repo_folder) = &repo_config.folder { repo_path.join(..) }
BookRoot == IF Book.folder # None THEN PathJoin(sync.path, Book.folder) ELSE sync.path

\* The title the book.toml of a repository declares: the books of the two
\* http repositories have one, the others have none.
DeclaredTitle(url) == IF url \in {HttpRepo, HttpDoubleSlash} THEN <<"Y">> ELSE None

\* generate_epub: MDBook::load(path) under the overrides; an error returns.
Load ==
    /\ pc = "load"
    /\ env' = WithVars(env, OverridesOf(variant, Book)).after
    /\ \E ok \in BOOLEAN :
        LET declared == DeclaredTitle(Book.repo_url)
            title == IF ok THEN EngineTitle(OverridesOf(variant, Book), declared) ELSE None
        IN /\ calls' = Append(calls, Call("load", Book.repo_url, BookRoot,
                                          OverridesOf(variant, Book), ok, title))
           /\ IF ok
              THEN /\ md' = [NoMd EXCEPT !.title = title]
                   /\ pc' = "generate"
                   /\ UNCHANGED result
              ELSE /\ Abort("err")
                   /\ UNCHANGED md
    /\ UNCHANGED <<variant, input, config, disk, i, manifest, dest, sync, t,
                   history>>

\* The render's error returned to run instead of being dropped.
Generate_RenderErrorFails ==
    /\ pc = "generate"
    /\ \E ok \in BOOLEAN, size \in 0..1 :
        /\ calls' = Append(calls, Call("epub_generate", Book.repo_url,
                                       config.destination_dir, <<>>, ok, size))
        /\ md' = [md EXCEPT !.rendered = ok, !.epub_size = size]
        /\ IF ok THEN pc' = "stat" /\ UNCHANGED result ELSE Abort("err")
    /\ UNCHANGED <<variant, input, config, env, disk, i, manifest, dest, sync, t,
                   history>>

\* mdbook_epub::generate: its error is dropped (lib.rs) or logged (book.rs).
\* Whatever the render reported, the epub is there (size > 0) or not.
Generate ==
    /\ pc = "generate"
    /\ \E ok \in BOOLEAN, size \in 0..1 :
        /\ calls' = Append(calls, Call("epub_generate", Book.repo_url,
                                       config.destination_dir, <<>>, ok, size))
        /\ md' = [md EXCEPT !.rendered = ok, !.epub_size = size]
    /\ pc' = "stat"
    /\ UNCHANGED <<variant, input, config, env, disk, i, manifest, dest, sync, t,
                   history, result>>

\* mdbook_epub::output_filename(Path::new(""), &md.config): the book's title
\* (mdbook_epub's default when it has none) with the epub extension.
OutputFilename(title) ==
    (IF title = None THEN <<"b", "o", "o", "k">> ELSE title) \o <<".", "e", "p", "u", "b">>

\* The entry put in front of the manifest's entries instead of behind them.
Stat_NewestFirst ==
    /\ pc = "stat"
    /\ calls' = Append(calls, Call("metadata", Book.repo_url,
                    PathJoin(config.destination_dir, OutputFilename(md.title)), <<>>,
                    md.epub_size > 0, md.epub_size))
    /\ IF md.epub_size = 0
       THEN /\ Abort("err")
            /\ UNCHANGED <<manifest, i>>
       ELSE /\ manifest' = [manifest EXCEPT !.entries = <<
                    [commit_sha |-> sync.commit_sha,
                     epub_size |-> md.epub_size,
                     last_modified |-> sync.last_modified,
                     path |-> OutputFilename(md.title),
                     repo_url |-> Book.repo_url,
                     title |-> ResolveTitle(Book.title, md.title),
                     url |-> Book.url]>> \o @]
            /\ i' = i + 1
            /\ pc' = LoopPc(i + 1)
            /\ UNCHANGED result
    /\ UNCHANGED <<variant, input, config, env, disk, dest, sync, md, t, history>>

\* The metadata error swallowed: an entry of size 0 for the missing file.
Stat_SwallowMissing ==
    /\ pc = "stat"
    /\ calls' = Append(calls, Call("metadata", Book.repo_url,
                    PathJoin(config.destination_dir, OutputFilename(md.title)), <<>>,
                    md.epub_size > 0, md.epub_size))
    /\ IF FALSE
       THEN /\ Abort("err")
            /\ UNCHANGED <<manifest, i>>
       ELSE /\ manifest' = [manifest EXCEPT !.entries = Append(@,
                    [commit_sha |-> sync.commit_sha,
                     epub_size |-> md.epub_size,
                     last_modified |-> sync.last_modified,
                     path |-> OutputFilename(md.title),
                     repo_url |-> Book.repo_url,
                     title |-> ResolveTitle(Book.title, md.title),
                     url |-> Book.url])]
            /\ i' = i + 1
            /\ pc' = LoopPc(i + 1)
            /\ UNCHANGED result
    /\ UNCHANGED <<variant, input, config, env, disk, dest, sync, md, t, history>>

\* The manifest stamped again with every entry it gets.
Stat_Restamp ==
    /\ pc = "stat"
    /\ calls' = Append(calls, Call("metadata", Book.repo_url,
                    PathJoin(config.destination_dir, OutputFilename(md.title)), <<>>,
                    md.epub_size > 0, md.epub_size))
    /\ IF md.epub_size = 0
       THEN /\ Abort("err")
            /\ UNCHANGED <<manifest, i>>
       ELSE /\ manifest' = [manifest EXCEPT !.timestamp = Now, !.entries = Append(@,
                    [commit_sha |-> sync.commit_sha,
                     epub_size |-> md.epub_size,
                     last_modified |-> sync.last_modified,
                     path |-> OutputFilename(md.title),
                     repo_url |-> Book.repo_url,
                     title |-> ResolveTitle(Book.title, md.title),
                     url |-> Book.url])]
            /\ i' = i + 1
            /\ pc' = LoopPc(i + 1)
            /\ UNCHANGED result
    /\ UNCHANGED <<variant, input, config, env, disk, dest, sync, md, t, history>>

\* std::fs::metadata(&output_file)?, the return, and run's
\* manifest.entries.push(entry).
Stat ==
    /\ pc = "stat"
    /\ calls' = Append(calls, Call("metadata", Book.repo_url,
                    PathJoin(config.destination_dir, OutputFilename(md.title)), <<>>,
                    md.epub_size > 0, md.epub_size))
    /\ IF md.epub_size = 0
       THEN /\ Abort("err")
            /\ UNCHANGED <<manifest, i>>
       ELSE /\ manifest' = [manifest EXCEPT !.entries = Append(@,
                    [commit_sha |-> sync.commit_sha,
                     epub_size |-> md.epub_size,
                     last_modified |-> sync.last_modified,
                     path |-> OutputFilename(md.title),
                     repo_url |-> Book.repo_url,
                     title |-> ResolveTitle(Book.title, md.title),
                     url |-> Book.url])]
            /\ i' = i + 1
            /\ pc' = LoopPc(i + 1)
            /\ UNCHANGED result
    /\ UNCHANGED <<variant, input, config, env, disk, dest, sync, md, t, history>>

\* ---------------------------------------------------------------- output

\* The attempt to write one file under the destination directory from the
\* manifest.
Write(file, ok) ==
    Call("write", <<>>, PathJoin(config.destination_dir, file), manifest, ok, 0)

ManifestJson == <<"manifest.json">>

\* manifest.json written whether or not a templates directory is set.
WriteManifest_Always ==
    /\ pc = "output"
    /\ \E ok \in BOOLEAN :
        /\ calls' = Append(calls, Write(ManifestJson, ok))
        /\ IF ok
           THEN pc' = "done" /\ result' = "ok"
           ELSE Abort("panic")
    /\ UNCHANGED <<variant, input, config, env, disk, i, manifest, dest, sync,
                   md, t, history>>

\* No templates directory: File::create(manifest.json).expect(..) and
\* serde_json::to_writer_pretty(..).expect(..), then Ok(manifest).
WriteManifest ==
    /\ pc = "output"
    /\ config.templates_dir = None
    /\ \E ok \in BOOLEAN :
        /\ calls' = Append(calls, Write(ManifestJson, ok))
        /\ IF ok
           THEN pc' = "done" /\ result' = "ok"
           ELSE Abort("panic")
    /\ UNCHANGED <<variant, input, config, env, disk, i, manifest, dest, sync,
                   md, t, history>>

\* A templates directory: tera::Tera::new(pattern)? and the start of the walk.
LoadTemplates ==
    /\ pc = "output"
    /\ config.templates_dir # None
    /\ \E ok \in BOOLEAN :
        /\ calls' = Append(calls, Call("templates", <<>>, config.templates_dir, <<>>, ok, 0))
        /\ IF ok
           THEN /\ t' = 1
                /\ pc' = "template"
                /\ UNCHANGED result
           ELSE /\ Abort("err")
                /\ UNCHANGED t
    /\ UNCHANGED <<variant, input, config, env, disk, i, manifest, dest, sync,
                   md, history>>

\* One turn of the walk: render the template (expect), create the output file
\* (expect) and write the page; after the last file, Ok(manifest).
RenderTemplate ==
    /\ pc = "template"
    /\ \E ok \in BOOLEAN :
        /\ calls' = Append(calls, Write(<<TemplateFiles[t]>>, ok))
        /\ IF ok
           THEN /\ t' = t + 1
                /\ IF t = Len(TemplateFiles)
                   THEN pc' = "done" /\ result' = "ok"
                   ELSE UNCHANGED <<pc, result>>
           ELSE /\ Abort("panic")
                /\ UNCHANGED t
    /\ UNCHANGED <<variant, input, config, env, disk, i, manifest, dest, sync,
                   md, history>>

Next ==
    \/ Cfg
    \/ Begin
    \/ Resolve
    \/ Open
    \/ Remote
    \/ Fetch
    \/ Clone
    \/ HeadCommit
    \/ Load
    \/ Generate
    \/ Stat
    \/ WriteManifest
    \/ LoadTemplates
    \/ RenderTemplate

Spec == Init /\ [][Next]_vars


\* ------------------------------------------------------ reading the calls

\* The positions of the calls made for book k with operation op.
CallsAt(k, op) == {n \in 1..Len(calls) : calls[n].book = k /\ calls[n].op = op}

\* The positions of the writes under the destination directory.
Writes == {n \in 1..Len(calls) : calls[n].op = "write"}

\* The operations of the synchronizer and of the generation adapter.
BookOps == {"open", "find_remote", "fetch", "clone", "load", "epub_generate", "metadata"}

\* A call whose failure the caller does not tolerate: an error that `?`
\* returns, or an origin that is not the requested url.
Fatal(c) ==
    \/ ~c.ok /\ c.op \in {"find_remote", "fetch", "clone", "load", "metadata"}
    \/ c.op = "find_remote" /\ c.ret # c.url

\* run ended inside the loop, at book i.
AbortedAtBook == pc = "done" /\ i \in 1..Len(Books)

\* -------------------------------------------------------------------- C1

C2_EmptyIsAnError ==
    (pc = "done" /\ Len(Books) = 0) => result # "ok"

\* C2, amended: zero configured books are no failure of their own.  Nothing
\* is synchronized or generated, the manifest has no entries, and the run
\* goes straight to the output stage: when it has ended, the output stage
\* was entered (a template load or a write was attempted).
C2_EmptyGoesToOutput ==
    Len(Books) = 0 =>
        /\ manifest.entries = <<>>
        /\ \A n \in 1..Len(calls) : calls[n].op \notin BookOps
        /\ pc = "done" => \E n \in 1..Len(calls) : calls[n].op \in {"templates", "write"}
        /\ (pc = "done" /\ \A n \in 1..Len(calls) : calls[n].ok) => result = "ok"

\* A run over zero books that succeeded.
C2_Witness ==
    /\ Len(Books) = 0
    /\ pc = "done"
    /\ result = "ok"

\* -------------------------------------------------------------------- C3

\* C3: with no books configured the run still renders its output and
\* succeeds when every write does: without a templates directory exactly
\* manifest.json is written, from a manifest with no entries whose title is
\* the shelf title; with one, the templates are written, in walk order.
C3_EmptyShelfOutput ==
    (Len(Books) = 0 /\ pc = "done") =>
        /\ result = "ok" <=> \A n \in 1..Len(calls) : calls[n].ok
        /\ result = "ok" =>
              IF config.templates_dir = None
              THEN /\ Len(calls) = 1
                   /\ calls[1].op = "write"
                   /\ calls[1].path = PathJoin(config.destination_dir, ManifestJson)
                   /\ calls[1].arg.entries = <<>>
                   /\ calls[1].arg.title = config.title
              ELSE /\ Len(calls) = 1 + Len(TemplateFiles)
                   /\ calls[1].op = "templates"
                   /\ \A k \in 1..Len(TemplateFiles) :
                         /\ calls[1 + k].op = "write"
                         /\ calls[1 + k].path =
                                PathJoin(config.destination_dir, <<TemplateFiles[k]>>)
                         /\ calls[1 + k].arg.entries = <<>>
                         /\ calls[1 + k].arg.title = config.title

\* manifest.json written for an empty shelf with a shelf title.
C3_Witness ==
    /\ Len(Books) = 0
    /\ pc = "done"
    /\ result = "ok"
    /\ config.templates_dir = None
    /\ config.title = <<"s">>
    /\ calls[1].arg.title = <<"s">>

\* -------------------------------------------------------------------- C4

\* C4: a destination that opens as a repository whose origin is not the
\* requested url makes the sync fail, and nothing is fetched: a find_remote
\* that returned another url is the last call of a failed run, and every
\* fetch is from the url that was requested.
C4_NoFetchFromOtherRemote ==
    \A n \in 1..Len(calls) :
        /\ (calls[n].op = "find_remote" /\ calls[n].ret # calls[n].url) =>
              n = Len(calls) /\ pc = "done" /\ result \in {"err", "panic"}
        /\ calls[n].op = "fetch" => calls[n].arg = calls[n].url

\* The destination opened and its origin is another url.
C4_Witness ==
    /\ pc = "done"
    /\ Len(calls) >= 2
    /\ calls[Len(calls) - 1].op = "open"
    /\ calls[Len(calls) - 1].ok
    /\ calls[Len(calls)].op = "find_remote"
    /\ calls[Len(calls)].ret = OtherUrl


\* -------------------------------------------------------------------- C5

\* p without its leading '/', when it has one.
WithoutLeadingSlash(p) == IF p # <<>> /\ p[1] = "/" THEN Tail(p) ELSE p

\* C5: for every input that parses as a url, the path a sync returns is
\* working_dir joined with the url's path minus its leading '/', and two
\* syncs of the same url against the same working_dir return the same path.
C5_UrlPathMapping ==
    /\ \A n \in 1..Len(history) :
          UrlParse(history[n].url).ok =>
              history[n].path =
                  PathJoin(history[n].working_dir,
                           WithoutLeadingSlash(UrlParse(history[n].url).path))
    /\ \A n, m \in 1..Len(history) :
          (history[n].url = history[m].url
              /\ history[n].working_dir = history[m].working_dir) =>
                  history[n].path = history[m].path

\* -------------------------------------------------------------------- C6

\* C6: an input that does not parse as a url does not make the sync fail on
\* that account: when the run ended at a book whose input is no url, the
\* destination working_dir / input was opened for it.
C6_LocalPathAccepted ==
    (AbortedAtBook /\ ~UrlParse(Book.repo_url).ok) =>
        \E n \in CallsAt(i, "open") :
            calls[n].path = PathJoin(config.working_dir, Book.repo_url)

\* -------------------------------------------------------------------- C7

\* The sync of book k has not yet gone past the step at pc value p.
SyncAt(k, p) == i = k /\ pc = p

\* C7: one open attempt decides between clone and fetch.  For every book
\* there is at most one open; after an open that succeeded there is never a
\* clone, and the sync fetches exactly once from origin unless the origin
\* check stopped it; after an open that failed there is never a find_remote
\* or a fetch, and exactly one clone, of the requested url into the
\* destination that was opened.  Neither a clone nor a fetch happens without
\* the open before it.
C7_OneOpenDecides ==
    \A k \in 1..Len(Books) :
        LET opens == CallsAt(k, "open")
            clones == CallsAt(k, "clone")
            fetches == CallsAt(k, "fetch")
            remotes == CallsAt(k, "find_remote")
        IN /\ Cardinality(opens) <= 1
           /\ opens = {} => clones \cup fetches \cup remotes = {}
           /\ \A o \in opens :
                IF calls[o].ok
                THEN /\ clones = {}
                     /\ Cardinality(remotes) <= 1 /\ Cardinality(fetches) <= 1
                     /\ \A f \in fetches : f > o /\ calls[f].arg = calls[f].url
                     /\ \/ SyncAt(k, "remote") \/ SyncAt(k, "fetch")
                        \/ \E r \in remotes : Fatal(calls[r])
                        \/ Cardinality(fetches) = 1
                ELSE /\ fetches \cup remotes = {}
                     /\ \/ SyncAt(k, "clone")
                        \/ /\ Cardinality(clones) = 1
                           /\ \A c \in clones :
                                /\ c = o + 1
                                /\ calls[c].url = Books[k].repo_url
                                /\ calls[c].path = calls[o].path

\* One run that cloned for its first book and fetched for its second.
C7_Witness ==
    /\ Len(history) = 2
    /\ history[1].how = "clone"
    /\ history[2].how = "fetch"
    /\ Cardinality(CallsAt(1, "clone")) = 1
    /\ Cardinality(CallsAt(2, "fetch")) = 1

\* -------------------------------------------------------------------- C8

\* The title the engine reported for book k (its load has returned).
EngineReported(k) == calls[CHOOSE n \in CallsAt(k, "load") : TRUE].ret

\* C8: a manifest entry's title is the config title when there is one, else
\* the title the engine reported when there is one, else the empty string;
\* and once the load of a book has succeeded, the only thing that fails the
\* book is a missing artifact (a missing title never does).
C8_TitlePrecedence ==
    /\ \A k \in 1..Len(manifest.entries) :
          /\ CallsAt(k, "load") # {}
          /\ Books[k].title # None => manifest.entries[k].title = Books[k].title
          /\ (Books[k].title = None /\ EngineReported(k) # None) =>
                manifest.entries[k].title = EngineReported(k)
          /\ (Books[k].title = None /\ EngineReported(k) = None) =>
                manifest.entries[k].title = <<>>
    /\ (AbortedAtBook /\ \E n \in CallsAt(i, "load") : calls[n].ok) =>
          /\ calls[Len(calls)].op = "metadata"
          /\ ~calls[Len(calls)].ok

\* Config title "T" over the engine's "Y" for the first book; neither title
\* for the second.
C8_Witness ==
    /\ Len(manifest.entries) = 2
    /\ Books[1].title = <<"T">>
    /\ EngineReported(1) = <<"Y">>
    /\ manifest.entries[1].title = <<"T">>
    /\ Books[2].title = None
    /\ EngineReported(2) = None
    /\ manifest.entries[2].title = <<>>

\* -------------------------------------------------------------------- C9

\* The string of the two override values the books use.
Stringified(value) ==
    IF value = [kind |-> "int", v |-> 1] THEN <<"1">> ELSE <<"\"", "Z", "\"">>

C10_ExclusiveOutputModes ==
    LET json == PathJoin(config.destination_dir, ManifestJson)
        page(k) == PathJoin(config.destination_dir, <<TemplateFiles[k]>>)
        written == SelectSeq(calls, LAMBDA c : c.op = "write")
    IN IF config.templates_dir # None
       THEN /\ \A n \in Writes : calls[n].path # json
            /\ \A n \in 1..Len(written) : n <= Len(TemplateFiles) /\ written[n].path = page(n)
            /\ (pc = "done" /\ result = "ok") =>
                  /\ Len(written) = Len(TemplateFiles)
                  /\ \A n \in 1..Len(written) : written[n].ok
       ELSE /\ \A n \in 1..Len(calls) : calls[n].op # "templates"
            /\ \A n \in Writes : calls[n].path = json
            /\ Len(written) <= 1
            /\ (pc = "done" /\ result = "ok") => Len(written) = 1 /\ written[1].ok

\* A shelf of one book rendered through the templates.
C10_Witness ==
    /\ config.templates_dir # None
    /\ pc = "done"
    /\ result = "ok"
    /\ Len(manifest.entries) = 1
    /\ Cardinality(Writes) = Len(TemplateFiles)


\* ------------------------------------------------------------------- C11

\* The record of the sync that returned for book k, and the calls the
\* generation of book k made.
SyncOf(k) == CHOOSE h \in {history[n] : n \in 1..Len(history)} : h.book = k
LoadOf(k) == calls[CHOOSE n \in CallsAt(k, "load") : TRUE]
MetadataOf(k) == calls[CHOOSE n \in CallsAt(k, "metadata") : TRUE]

\* C11: on a successful run the manifest has exactly one entry per configured
\* book, in configuration order.  Entry k carries the repo_url and url of
\* config k, the commit id and last-modified time the sync of config k
\* returned, and the path and size the generation of config k returned (the
\* output file name of the loaded book, and the size metadata found).
C11_EntriesMirrorConfigs ==
    (pc = "done" /\ result = "ok") =>
        /\ Len(manifest.entries) = Len(Books)
        /\ Len(history) = Len(Books)
        /\ \A k \in 1..Len(Books) :
              LET e == manifest.entries[k]
              IN /\ e.repo_url = Books[k].repo_url
                 /\ e.url = Books[k].url
                 /\ e.commit_sha = SyncOf(k).commit_sha
                 /\ e.last_modified = SyncOf(k).last_modified
                 /\ e.path = OutputFilename(LoadOf(k).ret)
                 /\ e.epub_size = MetadataOf(k).ret

\* A successful run over two different books whose syncs returned different
\* commits (one repository was already there, the other was cloned).
C11_Witness ==
    /\ pc = "done"
    /\ result = "ok"
    /\ Len(Books) = 2
    /\ Books[1].repo_url # Books[2].repo_url
    /\ Len(manifest.entries) = 2
    /\ manifest.entries[1].commit_sha # manifest.entries[2].commit_sha
    /\ manifest.entries[1].path # manifest.entries[2].path

\* ------------------------------------------------------------------- C12

\* C12: the overrides are scoped to the engine invocation.  No step of the
\* run, the load under the overrides included, leaves the process
\* environment other than it found it: whatever the override sequence and
\* whichever way the generation ends (artifact found, load error, missing
\* artifact), the environment after it is the environment before it, also
\* for a variable that was set before the call and that an override names.
C12_EnvironmentRestored == [][env' = env]_vars

\* A generation under an override of A, a variable the process had already
\* set to another value, ended on a missing artifact; A has its old value.
C12_Witness ==
    /\ pc = "done"
    /\ result = "err"
    /\ env["A"] = <<"0">>
    /\ Len(calls) > 0
    /\ calls[Len(calls)].op = "metadata"
    /\ \E n \in CallsAt(i, "load") :
          /\ calls[n].ok
          /\ Lookup(calls[n].arg, "A") = <<"1">>

\* ------------------------------------------------------------------- C13

\* C13: a missing output file is an error that is not swallowed.  When the
\* metadata probe finds no file, whether the render before it reported an
\* error or not, it is the run's last call: the run has ended with an error,
\* the manifest has no entry for the book (only those of the books before
\* it), no later book was touched and nothing was written.
C13_MissingArtifactFails ==
    \A k \in 1..Len(Books) : \A n \in CallsAt(k, "metadata") :
        ~calls[n].ok =>
            /\ n = Len(calls)
            /\ pc = "done"
            /\ result = "err"
            /\ i = k
            /\ Len(manifest.entries) = k - 1
            /\ Writes = {}

\* The first of two books: its render reported no error, and yet the output
\* file is not there.
C13_Witness ==
    /\ Len(Books) = 2
    /\ \E n \in CallsAt(1, "metadata") : ~calls[n].ok
    /\ \E n \in CallsAt(1, "epub_generate") : calls[n].ok
    /\ pc = "done"

\* ------------------------------------------------------------------- C14

\* C14: a render error alone never fails an entry.  A render that reported
\* an error does not end the run (the probe for the output file follows it),
\* and when the probe finds the file, the book gets its entry, with the size
\* the probe found, the file's name relative to the destination directory,
\* and the title resolved from the title the loaded book declares.
C14_RenderErrorTolerated ==
    \A k \in 1..Len(Books) : \A n \in CallsAt(k, "epub_generate") :
        ~calls[n].ok =>
            /\ pc = "done" => n < Len(calls)
            /\ \A p \in CallsAt(k, "metadata") :
                  calls[p].ok =>
                      /\ Len(manifest.entries) >= k
                      /\ manifest.entries[k].epub_size = calls[p].ret
                      /\ manifest.entries[k].path = OutputFilename(LoadOf(k).ret)
                      /\ PathJoin(config.destination_dir, manifest.entries[k].path)
                            = calls[p].path
                      /\ manifest.entries[k].title
                            = ResolveTitle(Books[k].title, LoadOf(k).ret)

\* The only book's render reported an error, its file was there, and the
\* run succeeded with its entry, titled as the book declares.
C14_Witness ==
    /\ pc = "done"
    /\ result = "ok"
    /\ Len(Books) = 1
    /\ \E n \in CallsAt(1, "epub_generate") : ~calls[n].ok
    /\ Len(manifest.entries) = 1
    /\ manifest.entries[1].title = <<"Y">>

\* ------------------------------------------------------------------- C15

\* Neither the configuration file nor the command line names a destination
\* directory.
NoDestination ==
    /\ input.args.destination_dir = None
    /\ FromDisk(input.file).config.destination_dir = None

\* C15 as claimed, for the configuration file: a file that cannot be read or
\* parsed never leads to a run that synchronizes, generates or writes.
C15_BrokenFileNeverRuns ==
    input.file.kind # "table" => calls = <<>>

\* C15, amended.  Without a destination directory from file or command line
\* the program fails in cfg, before run: nothing is synchronized, generated
\* or written and no manifest is made; and the program exits in cfg for no
\* other reason.  A configuration file that cannot be read or parsed is not
\* an error of its own: it counts as the default config, so no book is ever
\* synchronized or generated, and with a destination directory on the
\* command line the run goes on as the run of an empty shelf.
C15_ConfigStage ==
    /\ NoDestination =>
          /\ pc \in {"cfg", "exit"}
          /\ calls = <<>>
          /\ manifest.timestamp = 0
    /\ pc = "exit" => NoDestination /\ result = "err"
    /\ calls # <<>> => config.destination_dir # None
    /\ input.file.kind # "table" =>
          /\ \A n \in 1..Len(calls) : calls[n].op \notin BookOps
          /\ pc \notin {"cfg", "exit"} =>
                config = [DefaultConfig EXCEPT
                             !.destination_dir = input.args.destination_dir,
                             !.working_dir = Repos,
                             !.templates_dir = input.args.templates_dir]

\* An unparsable configuration file and a destination directory on the
\* command line: the run succeeded and wrote the manifest of an empty shelf.
C15_Witness ==
    /\ input.file.kind = "unparsable"
    /\ input.args.destination_dir # None
    /\ pc = "done"
    /\ result = "ok"
    /\ \E n \in Writes : calls[n].ok /\ calls[n].path = PathJoin(<<"d">>, ManifestJson)

\* ------------------------------------------------------------------- C16

\* C16: synchronizing brings the working copy to the latest remote state.
\* Every sync that found the repository and fetched returned the commit id
\* and the last-modified time of the remote's latest master commit, and the
\* working copy handed to the generation is at that commit.
C16_SyncReturnsRemoteTip ==
    \A n \in 1..Len(history) :
        history[n].how = "fetch" =>
            /\ history[n].commit_sha = RemoteTip
            /\ history[n].last_modified = RemoteTip
            /\ disk[history[n].path].head = RemoteTip

\* ------------------------------------------------------------------- C17

\* The operations of the synchronizer, of the generation adapter and of the
\* output renderer.
SyncOps == {"open", "find_remote", "fetch", "clone"}
GenerationOps == {"load", "epub_generate", "metadata"}
OutputOps == {"templates", "write"}

\* The stage of run a call belongs to: sync, generation, output.
Stage(c) == IF c.op \in SyncOps THEN 1 ELSE IF c.op \in GenerationOps THEN 2 ELSE 3

\* Call c is made for an earlier book than call d, or for the same book at
\* the same or an earlier stage.
NotAfter(c, d) ==
    \/ c.book < d.book
    \/ c.book = d.book /\ Stage(c) <= Stage(d)

\* C17: the books are processed one after the other, in configuration
\* order.  Each call is followed by a call for the same book at the same or a
\* later stage, or for a later book, so the calls never go back; renderer
\* calls come after every call for a book.  The generation of book k starts
\* only when the sync of book k has returned successfully.  The sync of book
\* k + 1 starts only when the generation of book k has found its file and
\* book k has its entry.  The output renderer starts only when the last book
\* has its entry.
C17_SequentialInOrder ==
    /\ \A n \in 1..(Len(calls) - 1) :
          /\ NotAfter(calls[n], calls[n + 1])
          /\ calls[n].op \in OutputOps => calls[n + 1].op \in OutputOps
    /\ \A n \in 1..Len(calls) :
          calls[n].op \in GenerationOps =>
              \E h \in 1..Len(history) : history[h].book = calls[n].book
    /\ \A k \in 2..Len(Books) :
          (\E n \in 1..Len(calls) : calls[n].book = k /\ calls[n].op \in BookOps) =>
              /\ Len(manifest.entries) >= k - 1
              /\ \E p \in CallsAt(k - 1, "metadata") : calls[p].ok
    /\ (\E n \in 1..Len(calls) : calls[n].op \in OutputOps) =>
          /\ Len(manifest.entries) = Len(Books)
          /\ Len(Books) > 0 => \E p \in CallsAt(Len(Books), "metadata") : calls[p].ok

\* Two books were synchronized and generated, and the renderer has written.
C17_Witness ==
    /\ Len(Books) = 2
    /\ CallsAt(1, "fetch") # {}
    /\ CallsAt(2, "clone") # {}
    /\ CallsAt(2, "metadata") # {}
    /\ Writes # {}

\* ------------------------------------------------------------------- C18

\* The directory `path` lies under the directory `dir`: it is dir, a
\* separator and at least one more character.
Under(dir, path) ==
    /\ Len(path) > Len(dir) + 1
    /\ SubSeq(path, 1, Len(dir) + 1) = dir \o <<"/">>

\* C18: the resolved sync directory always lies under working_dir.  Every
\* destination handed to open or clone, whatever the repository input, has
\* working_dir as a proper prefix and is no absolute path outside it.
C18_DestUnderWorkingDir ==
    \A n \in 1..Len(calls) :
        calls[n].op \in {"open", "clone"} =>
            Under(config.working_dir, calls[n].path)

\* ------------------------------------------------------------------- C19

\* C19: the manifest's timestamp and title are fixed at its construction,
\* before the first book is processed, and nothing changes them later.  From
\* the first step of the loop on, the timestamp is the time read before any
\* call was made and the title is the configured shelf title, however many
\* entries the manifest holds; and every file the renderer writes, every
\* template included, is made from that same manifest with all its entries.
C19_StampedOnce ==
    pc \notin {"cfg", "exit", "start"} =>
        /\ manifest.timestamp = 1
        /\ manifest.title = config.title
        /\ \A n \in Writes :
              /\ calls[n].arg = manifest
              /\ Len(calls[n].arg.entries) = Len(Books)

\* Two books and a titled shelf in template mode: both templates rendered.
C19_Witness ==
    /\ pc = "done"
    /\ result = "ok"
    /\ Len(manifest.entries) = 2
    /\ manifest.title = <<"s">>
    /\ config.templates_dir # None
    /\ \E n, p \in Writes : n # p /\ calls[n].ok /\ calls[p].ok

====
